---- MODULE Spec2Model ----
(***************************************************************************)
(* structopt: Load binds the tagged fields of a configuration struct to    *)
(* environment variables and command line flags.                           *)
(*                                                                         *)
(* Text (tags, environment values, arguments) is a sequence of one-        *)
(* character strings, so that upper-casing, trimming and parsing are       *)
(* computed character by character as the library routines compute them.   *)
(***************************************************************************)
EXTENDS Integers, Sequences, FiniteSets, TLC

VARIABLES config, mem, env, argSpec, flags, opts, fs, pc, i, result, parseCalls, parsedArgs,
          parseRet

vars == <<config, mem, env, argSpec, flags, opts, fs, pc, i, result, parseCalls, parsedArgs,
          parseRet>>

(***************************************************************************)
(* Bounds of the model.                                                    *)
(***************************************************************************)
\* Largest number of fields of a record drawn by InitRecord.
MaxFields == 2
\* Largest number of flag assignments on the command line drawn by InitKinds.
MaxArgs == 1

(***************************************************************************)
(* Program constants (part_000 lines 15-19).                               *)
(***************************************************************************)
flagSeps == <<".", "-">>
envSep == <<"_">>

(***************************************************************************)
(* Character helpers.                                                      *)
(***************************************************************************)
LowerLetters == <<"a","b","c","d","e","f","g","h","i","j","k","l","m",
                  "n","o","p","q","r","s","t","u","v","w","x","y","z">>
UpperLetters == <<"A","B","C","D","E","F","G","H","I","J","K","L","M",
                  "N","O","P","Q","R","S","T","U","V","W","X","Y","Z">>
HexDigits == <<"0","1","2","3","4","5","6","7","8","9","a","b","c","d","e","f">>

\* index of c in table, 0 when absent
IndexOf(c, table) ==
    IF \E k \in 1..Len(table) : table[k] = c
    THEN CHOOSE k \in 1..Len(table) : table[k] = c
    ELSE 0

PickOr(table, k, c) == IF k > 0 THEN table[k] ELSE c

\* unicode.ToUpper / unicode.ToLower on one character
UpperChar(c) == PickOr(UpperLetters, IndexOf(c, LowerLetters), c)
LowerChar(c) == PickOr(LowerLetters, IndexOf(c, UpperLetters), c)

\* strings.ToUpper / strings.ToLower
ToUpper(s) == [k \in 1..Len(s) |-> UpperChar(s[k])]
ToLower(s) == [k \in 1..Len(s) |-> LowerChar(s[k])]

\* strings.ReplaceAll(s, old, new) for a one-character old
ReplaceAll(s, old, new) == [k \in 1..Len(s) |-> IF s[k] = old THEN new ELSE s[k]]

\* unicode.IsSpace, on the white space characters that texts here contain
IsSpace(c) == c \in {" ", "\t", "\n", "\r"}

RECURSIVE TrimLeft(_)
TrimLeft(s) == IF s # <<>> /\ IsSpace(Head(s)) THEN TrimLeft(Tail(s)) ELSE s

RECURSIVE TrimRight(_)
TrimRight(s) ==
    IF s # <<>> /\ IsSpace(s[Len(s)]) THEN TrimRight(SubSeq(s, 1, Len(s) - 1)) ELSE s

\* strings.TrimSpace
TrimSpace(s) == TrimRight(TrimLeft(s))

InBase(d, base) == IF d >= 0 /\ d < base THEN d ELSE -1

\* the value of digit c in the given base, -1 when c is no digit of it
DigitVal(c, base) == InBase(IndexOf(LowerChar(c), HexDigits) - 1, base)

IsLetter(c) == IndexOf(LowerChar(c), LowerLetters) > 0

AllDigits(s, base) == \A k \in 1..Len(s) : DigitVal(s[k], base) >= 0

RECURSIVE DigitsValue(_, _)
DigitsValue(s, base) ==
    IF s = <<>> THEN 0
    ELSE DigitsValue(SubSeq(s, 1, Len(s) - 1), base) * base + DigitVal(s[Len(s)], base)

HasPrefix(s, p) == Len(s) >= Len(p) /\ SubSeq(s, 1, Len(p)) = p
Drop(s, n) == SubSeq(s, n + 1, Len(s))

\* index of the first c in s, 0 when absent (strings.IndexByte + 1)
FirstIndex(s, c) ==
    IF \E k \in 1..Len(s) : s[k] = c
    THEN CHOOSE k \in 1..Len(s) : s[k] = c /\ \A j \in 1..(k - 1) : s[j] # c
    ELSE 0

LastIndex(s, c) ==
    IF \E k \in 1..Len(s) : s[k] = c
    THEN CHOOSE k \in 1..Len(s) : s[k] = c /\ \A j \in (k + 1)..Len(s) : s[j] # c
    ELSE 0

\* s without a leading sign
Unsigned(s) == IF s # <<>> /\ s[1] \in {"+", "-"} THEN Tail(s) ELSE s
Negative(s) == s # <<>> /\ s[1] = "-"

(***************************************************************************)
(* The parsers the dispatch of option.set calls.  Each returns             *)
(* [ok, val]: val is the value the Go routine returns, which on a syntax   *)
(* error is the zero value of the type (for url.Parse: a nil pointer,      *)
(* modelled by ok = FALSE alone).  Numbers stay within four digits, so the *)
(* range errors of strconv are not met.                                    *)
(***************************************************************************)
Ok(v) == [ok |-> TRUE, val |-> v]
Fail(zero) == [ok |-> FALSE, val |-> zero]

\* the value u with the sign applied
Signed(neg, u) == IF ~u.ok THEN Fail(0) ELSE Ok(IF neg THEN 0 - u.val ELSE u.val)

\* strconv.ParseBool
ParseBool(s) ==
    IF s \in {<<"1">>, <<"t">>, <<"T">>, <<"T","R","U","E">>, <<"t","r","u","e">>,
              <<"T","r","u","e">>}
    THEN Ok(TRUE)
    ELSE IF s \in {<<"0">>, <<"f">>, <<"F">>, <<"F","A","L","S","E">>,
                   <<"f","a","l","s","e">>, <<"F","a","l","s","e">>}
    THEN Ok(FALSE)
    ELSE Fail(FALSE)

\* base 0 of strconv: the base a prefix announces and the characters it takes
PrefixOf(c) ==
    CASE c = "b" -> [base |-> 2, skip |-> 2]
      [] c = "o" -> [base |-> 8, skip |-> 2]
      [] c = "x" -> [base |-> 16, skip |-> 2]
      [] OTHER -> [base |-> 8, skip |-> 1]

BasePrefix(s) ==
    IF s[1] # "0" THEN [base |-> 10, skip |-> 0]
    ELSE IF Len(s) >= 3 THEN PrefixOf(LowerChar(s[2]))
    ELSE [base |-> 8, skip |-> 1]

DigitsIn(digits, base) ==
    IF AllDigits(digits, base) THEN Ok(DigitsValue(digits, base)) ELSE Fail(0)

ParseUintIn(s, p) == DigitsIn(Drop(s, p.skip), p.base)

\* strconv.ParseUint(s, base, 64); base 0 reads the prefixes 0b, 0o, 0x and a
\* leading 0 as octal.  (Underscore separators of base 0 are not modelled.)
ParseUint(s, base) ==
    IF s = <<>> THEN Fail(0)
    ELSE ParseUintIn(s, IF base = 0 THEN BasePrefix(s) ELSE [base |-> base, skip |-> 0])

\* strconv.ParseInt(s, base, bits): an optional sign, then ParseUint
ParseInt(s, base) ==
    IF s = <<>> THEN Fail(0) ELSE Signed(Negative(s), ParseUint(Unsigned(s), base))

\* strconv.Atoi
Atoi(s) == ParseInt(s, 10)

Scale(n) == CASE n = 0 -> 1000 [] n = 1 -> 100 [] n = 2 -> 10 [] OTHER -> 1

\* a decimal with integer part ip and fraction part fp, in thousandths
Decimal(ip, fp) ==
    IF /\ Len(ip) + Len(fp) > 0
       /\ Len(fp) <= 3
       /\ AllDigits(ip \o fp, 10)
    THEN Ok(DigitsValue(ip, 10) * 1000 + DigitsValue(fp, 10) * Scale(Len(fp)))
    ELSE Fail(0)

SplitDecimal(body, dot) ==
    Decimal(IF dot = 0 THEN body ELSE SubSeq(body, 1, dot - 1),
            IF dot = 0 THEN <<>> ELSE Drop(body, dot))

FloatBody(body) == SplitDecimal(body, FirstIndex(body, "."))

\* strconv.ParseFloat(s, 64) on plain decimals; the value is kept in
\* thousandths, which is exact for the texts of at most three fraction digits
\* used here.  (Exponents, hex floats, inf and nan are not modelled.)
ParseFloat(s) ==
    IF s = <<>> THEN Fail(0) ELSE Signed(Negative(s), FloatBody(Unsigned(s)))

\* the unit table of time.ParseDuration, in milliseconds (the units below a
\* millisecond, ns and us, are not modelled)
UnitMillis(u) ==
    CASE u = <<"m","s">> -> 1
      [] u = <<"s">> -> 1000
      [] u = <<"m">> -> 60000
      [] u = <<"h">> -> 3600000
      [] OTHER -> 0

\* length of the longest prefix of s made of decimal digits
RECURSIVE DigitRun(_)
DigitRun(s) ==
    IF s # <<>> /\ DigitVal(Head(s), 10) >= 0 THEN 1 + DigitRun(Tail(s)) ELSE 0

\* length of the longest prefix of s that holds no digit and no '.'
RECURSIVE UnitRun(_)
UnitRun(s) ==
    IF s # <<>> /\ DigitVal(Head(s), 10) < 0 /\ Head(s) # "." THEN 1 + UnitRun(Tail(s)) ELSE 0

\* the loop of time.ParseDuration over "<digits><unit>" terms (fractions such
\* as 1.5s are not modelled)
RECURSIVE DurationTerms(_)

Scaled(count, unit, tl) ==
    IF unit = 0 \/ ~tl.ok THEN Fail(0) ELSE Ok(count * unit + tl.val)

UnitAt(count, rest, m) ==
    IF m = 0 THEN Fail(0)
    ELSE Scaled(count, UnitMillis(SubSeq(rest, 1, m)), DurationTerms(Drop(rest, m)))

TermAt(s, n) ==
    IF n = 0 THEN Fail(0)
    ELSE UnitAt(DigitsValue(SubSeq(s, 1, n), 10), Drop(s, n), UnitRun(Drop(s, n)))

DurationTerms(s) == IF s = <<>> THEN Ok(0) ELSE TermAt(s, DigitRun(s))

DurationOf(neg, body) ==
    IF body = <<"0">> THEN Ok(0)
    ELSE IF body = <<>> THEN Fail(0)
    ELSE Signed(neg, DurationTerms(body))

\* time.ParseDuration
ParseDuration(s) == DurationOf(Negative(s), Unsigned(s))

\* the zero url.URL
EmptyURL == [Scheme |-> <<>>, Opaque |-> <<>>, Host |-> <<>>, Path |-> <<>>]

\* getScheme of net/url: [ok, scheme, rest]
RECURSIVE GetScheme(_, _)
GetScheme(s, k) ==
    IF k > Len(s) THEN [ok |-> TRUE, scheme |-> <<>>, rest |-> s]
    ELSE IF IsLetter(s[k]) \/ (k > 1 /\ (DigitVal(s[k], 10) >= 0 \/ s[k] \in {"+", "-", "."}))
    THEN GetScheme(s, k + 1)
    ELSE IF s[k] = ":" /\ k = 1 THEN [ok |-> FALSE, scheme |-> <<>>, rest |-> <<>>]
    ELSE IF s[k] = ":" THEN [ok |-> TRUE, scheme |-> SubSeq(s, 1, k - 1), rest |-> Drop(s, k)]
    ELSE [ok |-> TRUE, scheme |-> <<>>, rest |-> s]

\* validOptionalPort: what follows the last ':' of the host is digits
ValidOptionalPort(host, colon) == colon = 0 \/ AllDigits(Drop(host, colon), 10)

UrlHostPath(scheme, host, path) ==
    IF ValidOptionalPort(host, LastIndex(host, ":"))
    THEN Ok([Scheme |-> scheme, Opaque |-> <<>>, Host |-> host, Path |-> path])
    ELSE Fail(EmptyURL)

UrlHost(scheme, after, cut) ==
    UrlHostPath(scheme,
                IF cut = 0 THEN after ELSE SubSeq(after, 1, cut - 1),
                IF cut = 0 THEN <<>> ELSE Drop(after, cut - 1))

FirstSegment(rest, slash) == IF slash = 0 THEN rest ELSE SubSeq(rest, 1, slash - 1)

ColonInFirstSegment(rest) == FirstIndex(FirstSegment(rest, FirstIndex(rest, "/")), ":") > 0

UrlRest(scheme, rest) ==
    IF ~HasPrefix(rest, <<"/">>) /\ scheme # <<>>
    THEN Ok([Scheme |-> scheme, Opaque |-> rest, Host |-> <<>>, Path |-> <<>>])
    ELSE IF ~HasPrefix(rest, <<"/">>) /\ ColonInFirstSegment(rest) THEN Fail(EmptyURL)
    ELSE IF HasPrefix(rest, <<"/", "/">>) /\ (scheme # <<>> \/ ~HasPrefix(rest, <<"/", "/", "/">>))
    THEN UrlHost(scheme, Drop(rest, 2), FirstIndex(Drop(rest, 2), "/"))
    ELSE Ok([Scheme |-> scheme, Opaque |-> <<>>, Host |-> <<>>, Path |-> rest])

UrlAfterScheme(sch) ==
    IF ~sch.ok THEN Fail(EmptyURL) ELSE UrlRest(ToLower(sch.scheme), sch.rest)

\* url.Parse, for texts without query, fragment, userinfo, escapes and
\* bracketed hosts: control characters, the scheme, the first-segment colon
\* rule, the authority with its optional port, the path.
UrlParse(s) ==
    IF \E k \in 1..Len(s) : s[k] \in {"\t", "\n", "\r"} THEN Fail(EmptyURL)
    ELSE UrlAfterScheme(GetScheme(s, 1))

MacCons(b, tl) == IF tl.ok THEN Ok(<<b>> \o tl.val) ELSE Fail(<<>>)

\* the bytes of a hardware address written as two-digit hex groups
RECURSIVE MacBytes(_, _)
MacBytes(s, sep) ==
    IF Len(s) < 2 \/ ~AllDigits(SubSeq(s, 1, 2), 16) THEN Fail(<<>>)
    ELSE MacCons(DigitsValue(SubSeq(s, 1, 2), 16),
                 IF Len(s) = 2 THEN Ok(<<>>)
                 ELSE IF s[3] # sep THEN Fail(<<>>)
                 ELSE MacBytes(Drop(s, 3), sep))

\* net.ParseMAC, the parser behind macAddr.Set of the tests: the forms with
\* ':' or '-' between 6, 8 or 20 groups (the dotted form is not modelled)
ParseMAC(s) ==
    IF Len(s) < 14 \/ s[3] \notin {":", "-"} \/ (Len(s) + 1) % 3 # 0
       \/ (Len(s) + 1) \div 3 \notin {6, 8, 20}
    THEN Fail(<<>>)
    ELSE MacBytes(s, s[3])

(***************************************************************************)
(* Texts.                                                                  *)
(***************************************************************************)
Prefix == <<"A","P","P">>
Empty == <<>>
Space == <<" ">>
TabText == <<"\t">>
Mac1 == <<"a","a",":","b","b",":","c","c",":","d","d",":","e","e",":","f","f">>
Mac2 == <<"f","f",":","e","e",":","d","d",":","c","c",":","b","b",":","a","a">>
UrlEnv == <<"h",":","/","/","x","/","e">>
UrlFlag == <<"h",":","/","/","x","/","f">>

(***************************************************************************)
(* The configuration struct.  A field is [kind, tag, exported, def]: kind  *)
(* is the declared Go type (value: a pointer type with Set and String, the *)
(* *macAddr of the tests; unsupported: type T int), tag the text of its    *)
(* opt tag (empty when it has none), def the value it holds before Load.   *)
(***************************************************************************)
Kinds == {"string", "bool", "int", "uint64", "int64", "float64", "duration", "url",
          "value", "unsupported"}
Supported == Kinds \ {"unsupported"}
Primitive == Supported \ {"value"}

\* the tags of the tests' Config and Test structs and of the package comment
TagOf(kind) ==
    CASE kind = "string" -> <<"s","t","r","i","n","g">>
      [] kind = "bool" -> <<"b","o","o","l">>
      [] kind = "int" -> <<"i","n","t">>
      [] kind = "uint64" -> <<"u","i","n","t","6","4">>
      [] kind = "int64" -> <<"i","n","t","6","4">>
      [] kind = "float64" -> <<"f","l","o","a","t","6","4">>
      [] kind = "duration" -> <<"q","u","e","r","y",".","t","i","m","e","o","u","t">>
      [] kind = "url" -> <<"u","r","l">>
      [] kind = "value" -> <<"m","a","c",".","a","d","d","r","e","s","s">>
      [] kind = "unsupported" -> <<"T">>

\* what reflect.TypeOf prints for the field
TypeName(kind) == IF kind = "unsupported" THEN <<"T">> ELSE <<>>

\* the zero value of a kind and a struct default that differs from it
Zero(kind) ==
    CASE kind = "string" -> <<>>
      [] kind = "bool" -> FALSE
      [] kind \in {"int", "uint64", "int64", "float64", "duration", "unsupported"} -> 0
      [] kind = "url" -> EmptyURL
      [] kind = "value" -> <<>>

Default(kind) ==
    CASE kind = "string" -> <<"d">>
      [] kind = "bool" -> TRUE
      [] kind \in {"int", "uint64", "int64", "unsupported"} -> 7
      [] kind = "float64" -> 500
      [] kind = "duration" -> 3000
      [] kind = "url" -> [Scheme |-> <<>>, Opaque |-> <<>>, Host |-> <<>>, Path |-> <<"/", "d">>]
      [] kind = "value" -> <<1, 2, 3, 4, 5, 6>>

Shapes == {"ptrStruct", "struct", "ptrNonStruct", "nilPtrStruct", "nil"}

(***************************************************************************)
(* Results of Load.                                                        *)
(***************************************************************************)
Res(kind, name, value, at) == [err |-> kind, name |-> name, value |-> value, at |-> at]
Running == Res("running", <<>>, <<>>, 0)
Nil == Res("nil", <<>>, <<>>, 0)
NoParse == Res("none", <<>>, <<>>, 0)

(***************************************************************************)
(* inferOptions (part_000 lines 89-121).                                   *)
(***************************************************************************)
\* lines 108-116: the result of strings.ReplaceAll is discarded at line 110,
\* so the name keeps the separators of the tag
EnvVarName(prefix, tag) ==
    LET envVar == ToUpper(tag)
    IN prefix \o envSep \o envVar

\* the name the package comment documents (APP_QUERY_TIMEOUT for
\* query.timeout): every separator replaced by envSep
RECURSIVE ReplaceSeps(_, _)
ReplaceSeps(s, k) ==
    IF k > Len(flagSeps) THEN s ELSE ReplaceSeps(ReplaceAll(s, flagSeps[k], envSep[1]), k + 1)

DocEnvVarName(prefix, tag) == prefix \o envSep \o ReplaceSeps(ToUpper(tag), 1)

\* a shape test that forgets the pointer: any struct passes
IsStructOrPointer(cfg) == cfg.shape \in {"ptrStruct", "struct"}

\* line 90: config is a pointer to a struct
IsStructPointer(cfg) == cfg.shape = "ptrStruct"

\* lines 97-119: one option per settable, tagged field, in declaration order
RECURSIVE OptionsFrom(_, _, _)
OptionsFrom(prefix, fields, k) ==
    IF k > Len(fields) THEN <<>>
    ELSE IF ~fields[k].exported \/ Len(fields[k].tag) = 0
    THEN OptionsFrom(prefix, fields, k + 1)
    ELSE <<[iface |-> fields[k].kind, ptr |-> k, flagName |-> fields[k].tag,
            envVar |-> EnvVarName(prefix, fields[k].tag)]>>
         \o OptionsFrom(prefix, fields, k + 1)

inferOptions(prefix, cfg) ==
    IF ~IsStructPointer(cfg) THEN [err |-> TRUE, opts |-> <<>>]
    ELSE [err |-> FALSE, opts |-> OptionsFrom(prefix, cfg.fields, 1)]

(***************************************************************************)
(* option.set (part_000 lines 29-82).                                      *)
(***************************************************************************)
\* os.Getenv: an unset variable reads as the empty string
Getenv(e, name) == IF name \in DOMAIN e THEN e[name] ELSE <<>>

\* the parser each case of the switch runs on the environment text
EnvParse(kind, text) ==
    CASE kind = "string" -> Ok(text)
      [] kind = "bool" -> ParseBool(text)
      [] kind = "int" -> Atoi(text)
      [] kind = "uint64" -> ParseUint(text, 10)
      [] kind = "int64" -> ParseInt(text, 10)
      [] kind = "float64" -> ParseFloat(text)
      [] kind = "duration" -> ParseDuration(text)
      [] kind = "url" -> UrlParse(text)
      [] kind = "value" -> ParseMAC(text)

\* The outcome of one call of set: the value stored in the field, whether the
\* flag was registered, and the error returned.
\*   string: the text is stored as it is.
\*   bool .. duration: the parser's value is stored even when it fails (zero).
\*   url: a failed url.Parse returns a nil *URL and line 68 dereferences it.
\*   value: Set (macAddr.Set) stores only what it parsed.
\*   default: the error of line 75, before anything is stored or registered.
Outcome(val, registered, how) == [val |-> val, registered |-> registered, how |-> how]

\* a set that registers the flag and never stores the environment value
SetParsedKeepsDefault(kind, cur, r) == Outcome(cur, TRUE, IF r.ok THEN "ok" ELSE "err")

SetParsed(kind, cur, r) ==
    IF kind = "url" /\ ~r.ok THEN Outcome(cur, FALSE, "panic")
    ELSE Outcome(IF kind = "value" /\ ~r.ok THEN cur ELSE r.val, TRUE,
                 IF r.ok THEN "ok" ELSE "err")

\* a set whose default case skips the field instead of failing
SetOutcomeSkipsUnsupported(o, cur, fromEnv) ==
    IF o.iface = "unsupported" THEN Outcome(cur, FALSE, "ok")
    ELSE SetParsed(o.iface, cur, EnvParse(o.iface, fromEnv))

SetOutcome(o, cur, fromEnv) ==
    IF o.iface = "unsupported" THEN Outcome(cur, FALSE, "unsupported")
    ELSE SetParsed(o.iface, cur, EnvParse(o.iface, fromEnv))

\* a line 77 that returns every parser error, blank text or not
ReportsAnyError(err, fromEnv) == err

\* line 77: the error is returned only if there was something to parse
ReportsParseError(err, fromEnv) == err /\ TrimSpace(fromEnv) # <<>>

(***************************************************************************)
(* The flag set (package flag): the collaborator option.set registers the  *)
(* fields with and Load asks to parse os.Args[1:].                         *)
(***************************************************************************)
ArgErrors == {"flag: bad syntax", "flag: not defined", "flag: help", "flag: invalid value",
              "flag: needs an argument"}

\* the parser behind Value.Set of the flag registered for a kind
FlagParse(kind, text) ==
    CASE kind = "string" -> Ok(text)
      [] kind = "bool" -> ParseBool(text)
      [] kind = "int" -> ParseInt(text, 0)
      [] kind = "uint64" -> ParseUint(text, 0)
      [] kind = "int64" -> ParseInt(text, 0)
      [] kind = "float64" -> ParseFloat(text)
      [] kind = "duration" -> ParseDuration(text)
      [] kind = "url" -> UrlParse(text)
      [] kind = "value" -> ParseMAC(text)

Stored(kind, cur, r) ==
    [ok |-> r.ok, val |-> IF kind \in {"url", "value"} /\ ~r.ok THEN cur ELSE r.val]

\* Value.Set of the flag registered for a kind.  The Set of the built-in
\* boolValue .. durationValue stores the parser's value even when it fails;
\* urlValue.Set (part_000 lines 161-168) and macAddr.Set store on success only.
FlagValueSet(kind, text, cur) == Stored(kind, cur, FlagParse(kind, text))

\* FlagSet.formal lookup: the index of the flag called name, 0 when undefined
Lookup(formal, name) ==
    IF \E k \in 1..Len(formal) : formal[k].name = name
    THEN CHOOSE k \in 1..Len(formal) : formal[k].name = name
    ELSE 0

\* FlagSet.Parse: parseOne over the tokens until one is no flag, is "--" or
\* fails.  The result is the memory the flags' pointers wrote and the error.
RECURSIVE FlagSetParse(_, _, _)

ApplySet(formal, m, k, name, value, rest, set) ==
    IF ~set.ok
    THEN [mem |-> [m EXCEPT ![formal[k].ptr] = set.val],
          err |-> Res("flag: invalid value", name, value, formal[k].ptr)]
    ELSE FlagSetParse(formal, [m EXCEPT ![formal[k].ptr] = set.val], rest)

ParseSet(formal, m, k, name, value, rest) ==
    ApplySet(formal, m, k, name, value, rest,
             FlagValueSet(formal[k].kind, value, m[formal[k].ptr]))

\* parseOne once the flag is looked up: a boolean flag needs no value, any
\* other takes the next token when the flag's token carries none
ParseFlag(formal, m, args, name, hasValue, value, k) ==
    IF k = 0
    THEN [mem |-> m,
          err |-> IF name \in {<<"h">>, <<"h","e","l","p">>}
                  THEN Res("flag: help", name, <<>>, 0)
                  ELSE Res("flag: not defined", name, <<>>, 0)]
    ELSE IF ~hasValue /\ formal[k].kind # "bool" /\ Len(args) < 2
    THEN [mem |-> m, err |-> Res("flag: needs an argument", name, <<>>, 0)]
    ELSE ParseSet(formal, m, k, name,
                  IF hasValue THEN value
                  ELSE IF formal[k].kind = "bool" THEN <<"t","r","u","e">>
                  ELSE args[2],
                  IF ~hasValue /\ formal[k].kind # "bool" THEN Drop(args, 2) ELSE Tail(args))

ParseLookup(formal, m, args, name, hasValue, value) ==
    ParseFlag(formal, m, args, name, hasValue, value, Lookup(formal, name))

\* parseOne: the name up to the first '=' after its first character
ParseNamed(formal, m, args, name0, eq) ==
    ParseLookup(formal, m, args, IF eq > 0 THEN SubSeq(name0, 1, eq - 1) ELSE name0,
                eq > 0, Drop(name0, eq))

ParseName(formal, m, args, name0) ==
    IF name0 = <<>> \/ name0[1] \in {"-", "="}
    THEN [mem |-> m, err |-> Res("flag: bad syntax", name0, <<>>, 0)]
    ELSE ParseNamed(formal, m, args, name0, FirstIndex(name0, "="))

parseOne(formal, m, args, s) ==
    IF Len(s) < 2 \/ s[1] # "-" THEN [mem |-> m, err |-> Nil]
    ELSE IF s = <<"-", "-">> THEN [mem |-> m, err |-> Nil]
    ELSE ParseName(formal, m, args, Drop(s, IF s[2] = "-" THEN 2 ELSE 1))

FlagSetParse(formal, m, args) ==
    IF args = <<>> THEN [mem |-> m, err |-> Nil] ELSE parseOne(formal, m, args, Head(args))

(***************************************************************************)
(* The process arguments.  argSpec lists the flag assignments the command  *)
(* line makes, each [name, text, form]; os.Args is the program name        *)
(* followed by their tokens: -name text (sep), -name=text (eq), -name      *)
(* (bare, a boolean flag alone).                                           *)
(***************************************************************************)
Dash == <<"-">>

RECURSIVE Render(_)
Render(spec) ==
    IF spec = <<>> THEN <<>>
    ELSE LET a == Head(spec)
         IN (CASE a.form = "sep" -> <<Dash \o a.name, a.text>>
               [] a.form = "eq" -> <<Dash \o a.name \o <<"=">> \o a.text>>
               [] a.form = "bare" -> <<Dash \o a.name>>)
            \o Render(Tail(spec))

OsArgs == <<<<"p","r","o","g">>>> \o Render(argSpec)

(***************************************************************************)
(* Load (part_000 lines 125-148), one action per step.                     *)
(***************************************************************************)
\* lines 126-135: infer the options; a config that is no pointer to a struct
\* ends the call
LoadInfer ==
    /\ pc = "start"
    /\ LET r == inferOptions(Prefix, config)
       IN IF r.err
          THEN /\ result' = Res("ConfigShapeError", <<>>, <<>>, 0)
               /\ pc' = "done"
               /\ UNCHANGED <<opts, i>>
          ELSE /\ opts' = r.opts
               /\ i' = 1
               /\ pc' = "set"
               /\ UNCHANGED result
    /\ UNCHANGED <<config, mem, env, argSpec, flags, fs, parseCalls, parsedArgs, parseRet>>

\* lines 136-140: one pass of the loop, the call opt.set(fs)
setWith(o, fromEnv, out) ==
    /\ mem' = [mem EXCEPT ![o.ptr] = out.val]
    /\ fs' = IF out.registered
             THEN Append(fs, [name |-> o.flagName, ptr |-> o.ptr, kind |-> o.iface,
                              defValue |-> out.val])
             ELSE fs
    /\ IF out.how = "panic"
       THEN /\ result' = Res("panic", o.envVar, fromEnv, o.ptr)
            /\ pc' = "done"
            /\ UNCHANGED i
       ELSE IF out.how = "unsupported"
       THEN /\ result' = Res("UnsupportedTypeError", TypeName(o.iface), <<>>, o.ptr)
            /\ pc' = "done"
            /\ UNCHANGED i
       ELSE IF ReportsParseError(out.how = "err", fromEnv)
       THEN /\ result' = Res("ParseError", o.envVar, fromEnv, o.ptr)
            /\ pc' = "done"
            /\ UNCHANGED i
       ELSE /\ i' = i + 1
            /\ UNCHANGED <<result, pc>>

setFrom(o, fromEnv) == setWith(o, fromEnv, SetOutcome(o, mem[o.ptr], fromEnv))

set(o) == setFrom(o, Getenv(env, o.envVar))

LoadSet ==
    /\ pc = "set"
    /\ i <= Len(opts)
    /\ set(opts[i])
    /\ UNCHANGED <<config, env, argSpec, flags, opts, parseCalls, parsedArgs, parseRet>>

\* lines 143-147: what Load returns for what Parse returned
ReturnOfParse(err) == IF err # Nil THEN err ELSE Nil

\* a Load that never parses the arguments, and one that always does
ParsesNever(f) == FALSE
ParsesAlways(f) == TRUE

\* line 141: the arguments are parsed only with a flag set of the caller
ParsesArgs(f) == f # "nil"

Parsed(f, args, p) ==
    /\ mem' = p.mem
    /\ parseCalls' = parseCalls + 1
    /\ parsedArgs' = args
    /\ IF p.err # Nil /\ f = "ExitOnError"
       THEN /\ parseRet' = NoParse
            /\ result' = Res("exit", <<>>, <<>>, 0)
       ELSE /\ parseRet' = p.err
            /\ result' = ReturnOfParse(p.err)

\* lines 141-147: after the loop, parse os.Args[1:] and return
LoadParse ==
    /\ pc = "set"
    /\ i > Len(opts)
    /\ pc' = "done"
    /\ IF ParsesArgs(flags)
       THEN Parsed(flags, Tail(OsArgs), FlagSetParse(fs, mem, Tail(OsArgs)))
       ELSE /\ result' = Nil
            /\ UNCHANGED <<mem, parseCalls, parsedArgs, parseRet>>
    /\ UNCHANGED <<config, env, argSpec, flags, opts, fs, i>>

Next == LoadInfer \/ LoadSet \/ LoadParse

(***************************************************************************)
(* Inputs.                                                                 *)
(***************************************************************************)
\* environment texts that are empty or white space only
Blank == {Empty, Space, TabText}

\* further environment texts tried for a kind, some its parser accepts and
\* some it rejects
SampleEnv(kind) ==
    CASE kind = "string" -> {<<"e">>}
      [] kind = "bool" -> {<<"t","r","u","e">>, <<"0">>, <<"x">>}
      [] kind = "int" -> {<<"2","5">>, <<"x">>}
      [] kind = "uint64" -> {<<"1","0">>, <<"-","1">>}
      [] kind = "int64" -> {<<"-","7">>, <<"0","1","0">>, <<"0","x","1","0">>}
      [] kind = "float64" -> {<<"1",".","2">>, <<"x">>}
      [] kind = "duration" -> {<<"1","s">>, <<"5">>}
      [] kind = "url" -> {UrlEnv, <<":","x">>}
      [] kind = "value" -> {Mac1, <<"x">>}
      [] kind = "unsupported" -> {<<"1">>}

\* texts given to the flag of a kind
SampleFlag(kind) ==
    CASE kind = "string" -> {<<"f">>}
      [] kind = "bool" -> {<<"f">>, <<"x">>}
      [] kind = "int" -> {<<"5","0">>, <<"x">>}
      [] kind = "uint64" -> {<<"1">>, <<"-","1">>}
      [] kind = "int64" -> {<<"0","1","0">>, <<"0","x","1","0">>, <<"x">>}
      [] kind = "float64" -> {<<"2",".","4">>, <<"x">>}
      [] kind = "duration" -> {<<"2","s">>, <<"5">>}
      [] kind = "url" -> {UrlFlag, <<":","x">>}
      [] kind = "value" -> {Mac2, <<"x">>}
      [] kind = "unsupported" -> {<<"1">>}

\* how a flag of a kind is written: a boolean flag takes its value with '='
\* or stands alone
Forms(kind) == IF kind = "bool" THEN {"eq", "bare"} ELSE {"sep", "eq"}

Assignments(field) ==
    {[name |-> field.tag, text |-> IF f = "bare" THEN <<"t","r","u","e">> ELSE t, form |-> f] :
        t \in SampleFlag(field.kind), f \in Forms(field.kind)}

\* the sequences of at most n elements of S
RECURSIVE SeqsUpTo(_, _)
SeqsUpTo(S, n) ==
    IF n = 0 THEN {<<>>}
    ELSE LET shorter == SeqsUpTo(S, n - 1)
         IN shorter \cup {Append(q, x) : q \in {q \in shorter : Len(q) = n - 1}, x \in S}

\* an environment choice: the variable unset, or set to a text
Unset == [set |-> FALSE, text |-> <<>>]
EnvChoices(texts) == {Unset} \cup {[set |-> TRUE, text |-> t] : t \in texts}

\* the environment made of <<name, choice>> pairs
MakeEnv(pairs) ==
    [nm \in {p[1] : p \in {q \in pairs : q[2].set}} |->
        (CHOOSE p \in pairs : p[1] = nm /\ p[2].set)[2].text]

FlagSets == {"nil", "ContinueOnError", "ExitOnError"}

Field(kind, tag, exported, def) == [kind |-> kind, tag |-> tag, exported |-> exported, def |-> def]

Start ==
    /\ opts = <<>>
    /\ fs = <<>>
    /\ pc = "start"
    /\ i = 0
    /\ result = Running
    /\ parseCalls = 0
    /\ parsedArgs = <<>>
    /\ parseRet = NoParse

(***************************************************************************)
(* InitKinds: Load on a pointer to a struct of one tagged field, of every  *)
(* kind, with the environment set under the name option.set reads and      *)
(* under the documented name, and up to MaxArgs flag assignments.          *)
(***************************************************************************)
InitKinds ==
    /\ \E kind \in Kinds, def \in BOOLEAN :
         LET f == Field(kind, TagOf(kind), TRUE, IF def THEN Default(kind) ELSE Zero(kind))
             read == EnvVarName(Prefix, f.tag)
             doc == DocEnvVarName(Prefix, f.tag)
             choices == EnvChoices(Blank \cup SampleEnv(kind))
         IN /\ config = [shape |-> "ptrStruct", fields |-> <<f>>]
            /\ mem = <<f.def>>
            /\ \E a \in choices, b \in choices :
                 /\ read = doc => a = b
                 /\ env = MakeEnv({<<read, a>>, <<doc, b>>})
            /\ argSpec \in SeqsUpTo(Assignments(f), MaxArgs)
    /\ flags \in FlagSets
    /\ Start

SpecKinds == InitKinds /\ [][Next]_vars

(***************************************************************************)
(* InitRecord: Load on structs of up to MaxFields fields, and on configs   *)
(* that are no pointer to a struct.  A field comes with the choice of its  *)
(* environment variable (unset, white space only, or a text of its kind)   *)
(* and of at most one flag assignment; the kinds are                       *)
(* one per branch of the switch of option.set that behaves differently     *)
(* (no parser, a strconv parser, url.Parse, Set, default), and fields that *)
(* inferOptions skips: one without a tag, one that is not exported.        *)
(***************************************************************************)
RecordFields ==
    {Field(kind, TagOf(kind), TRUE, Default(kind)) :
        kind \in {"string", "int", "url", "value", "unsupported"}}
    \cup {Field("unsupported", <<>>, TRUE, Default("unsupported")),
          Field("bool", TagOf("bool"), FALSE, Default("bool"))}

RecordEnv(f) ==
    IF f.tag = <<>> THEN {Unset} ELSE EnvChoices({TabText} \cup SampleEnv(f.kind))

RecordArg(f) ==
    IF f.tag = <<>> \/ f.kind \in {"string", "unsupported"} THEN {<<>>}
    ELSE {<<>>} \cup {<<[name |-> f.tag, text |-> t, form |-> "eq"]>> : t \in SampleFlag(f.kind)}

FieldScenarios ==
    UNION {{[field |-> f, env |-> e, arg |-> a] : e \in RecordEnv(f), a \in RecordArg(f)} :
              f \in RecordFields}

\* flag.FlagSet panics when a name is defined twice: the tags are distinct
DistinctTags(sc) ==
    \A j, k \in 1..Len(sc) : j # k => sc[j].field.tag # sc[k].field.tag

Records == {sc \in SeqsUpTo(FieldScenarios, MaxFields) : DistinctTags(sc)}

RECURSIVE ArgsOf(_)
ArgsOf(sc) == IF sc = <<>> THEN <<>> ELSE Head(sc).arg \o ArgsOf(Tail(sc))

InitRecord ==
    /\ \E sc \in Records, shape \in Shapes :
         /\ shape \in {"ptrStruct", "struct"} <=> sc # <<>>
         /\ config = [shape |-> shape, fields |-> [k \in 1..Len(sc) |-> sc[k].field]]
         /\ mem = [k \in 1..Len(sc) |-> sc[k].field.def]
         /\ env = MakeEnv({<<EnvVarName(Prefix, sc[k].field.tag), sc[k].env>> : k \in 1..Len(sc)})
         /\ argSpec = IF sc = <<>> THEN <<[name |-> TagOf("int"), text |-> <<"5","0">>, form |-> "sep"]>>
                      ELSE ArgsOf(sc)
    /\ flags \in FlagSets
    /\ Start

Init == InitRecord

Spec == Init /\ [][Next]_vars

(***************************************************************************)
(* Vocabulary of the claims.                                               *)
(***************************************************************************)
Done == pc = "done"
FieldIdx == 1..Len(config.fields)
KindOf(k) == config.fields[k].kind
TagAt(k) == config.fields[k].tag
DefaultOf(k) == config.fields[k].def

\* field k has an option: Load inferred one for it
HasOption(k) == \E j \in 1..Len(opts) : opts[j].ptr = k
OptionOf(k) == opts[CHOOSE j \in 1..Len(opts) : opts[j].ptr = k]

\* the text of the environment variable of field k, under the name its option carries
EnvTextOf(k) == Getenv(env, OptionOf(k).envVar)
EnvSetFor(k) == OptionOf(k).envVar \in DOMAIN env

\* the command line assigns the flag of field k; the text of its last assignment
Assigned(k) == \E a \in 1..Len(argSpec) : argSpec[a].name = TagAt(k)
LastAssigned(k) ==
    argSpec[CHOOSE a \in 1..Len(argSpec) :
              /\ argSpec[a].name = TagAt(k)
              /\ \A b \in (a + 1)..Len(argSpec) : argSpec[b].name # TagAt(k)].text

\* the flag with which field k is registered
Registered(k) == \E j \in 1..Len(fs) : fs[j].ptr = k

\* the apply step of field k fails: its type is unsupported, or its environment
\* text is not blank and its parser rejects it
RejectsEnv(k) ==
    /\ KindOf(k) \in Supported \ {"string"}
    /\ TrimSpace(EnvTextOf(k)) # <<>>
    /\ ~EnvParse(KindOf(k), EnvTextOf(k)).ok
FailsToApply(k) == HasOption(k) /\ (KindOf(k) = "unsupported" \/ RejectsEnv(k))
FirstFailure(k) == FailsToApply(k) /\ \A j \in 1..(k - 1) : ~FailsToApply(j)

\* the apply step of field k does not complete: it fails, or url.Parse rejects
\* the text of a URL field, blank or not, and its nil result is dereferenced
NilDereference(k) == HasOption(k) /\ KindOf(k) = "url" /\ ~EnvParse("url", EnvTextOf(k)).ok
EndsLoad(k) == FailsToApply(k) \/ NilDereference(k)

(***************************************************************************)
(* C1.  With a non-nil flag set, a valid environment value E and a valid   *)
(* flag value F for a field of a supported kind, after Load returns nil    *)
(* the field equals parse(F): the flag wins over the environment.          *)
(***************************************************************************)
C1_Case(k) ==
    /\ Done
    /\ result = Nil
    /\ flags # "nil"
    /\ HasOption(k)
    /\ KindOf(k) \in Supported
    /\ EnvSetFor(k)
    /\ EnvParse(KindOf(k), EnvTextOf(k)).ok
    /\ Assigned(k)

C1_FlagWins ==
    \A k \in FieldIdx :
        C1_Case(k) /\ FlagParse(KindOf(k), LastAssigned(k)).ok
            => mem[k] = FlagParse(KindOf(k), LastAssigned(k)).val

C1_Witness ==
    \E k \in FieldIdx :
        /\ C1_Case(k)
        /\ KindOf(k) = "int64"
        /\ FlagParse(KindOf(k), LastAssigned(k)).val # EnvParse(KindOf(k), EnvTextOf(k)).val
        /\ mem[k] = 8

(***************************************************************************)
(* C2.  For a primitive kind with struct default D, a non-empty valid      *)
(* environment value E and no flag argument for the field, after Load      *)
(* returns nil the field equals parse(E), not D.                           *)
(***************************************************************************)
C2_Case(k) ==
    /\ Done
    /\ result = Nil
    /\ HasOption(k)
    /\ KindOf(k) \in Primitive
    /\ EnvSetFor(k)
    /\ EnvTextOf(k) # <<>>
    /\ ~Assigned(k)

C2_EnvOverDefault ==
    \A k \in FieldIdx :
        C2_Case(k) /\ EnvParse(KindOf(k), EnvTextOf(k)).ok
            => mem[k] = EnvParse(KindOf(k), EnvTextOf(k)).val

C2_Witness ==
    \E k \in FieldIdx :
        /\ C2_Case(k)
        /\ KindOf(k) = "duration"
        /\ DefaultOf(k) = 3000
        /\ mem[k] = 1000

(***************************************************************************)
(* C3.  With the environment variable unset, empty or white space only and *)
(* no flag argument for the field, the field holds after Load the struct   *)
(* default it had before.                                                  *)
(***************************************************************************)
C3_DefaultKept ==
    \A k \in FieldIdx :
        /\ Done
        /\ HasOption(k)
        /\ KindOf(k) \in Supported
        /\ TrimSpace(EnvTextOf(k)) = <<>>
        /\ ~Assigned(k)
        => mem[k] = DefaultOf(k)

(***************************************************************************)
(* C4.  The environment variable read for a tagged field is the prefix,    *)
(* "_" and the tag upper-cased with '.' and '-' replaced by '_', so a      *)
(* value set under that name, with no flag given, is the one applied.      *)
(***************************************************************************)
C4_DocumentedName ==
    \A k \in FieldIdx :
        /\ HasOption(k) => OptionOf(k).envVar = DocEnvVarName(Prefix, TagAt(k))
        /\ ( /\ Done
             /\ result = Nil
             /\ HasOption(k)
             /\ KindOf(k) \in Supported
             /\ DocEnvVarName(Prefix, TagAt(k)) \in DOMAIN env
             /\ EnvParse(KindOf(k), env[DocEnvVarName(Prefix, TagAt(k))]).ok
             /\ TrimSpace(env[DocEnvVarName(Prefix, TagAt(k))]) # <<>>
             /\ ~Assigned(k) )
           => mem[k] = EnvParse(KindOf(k), env[DocEnvVarName(Prefix, TagAt(k))]).val

(***************************************************************************)
(* C5.  For a kind with a parser, an environment text that is not blank    *)
(* and that the parser rejects makes Load return the parse error carrying  *)
(* the variable name and the text; Load does not return nil or crash.      *)
(***************************************************************************)
C5_InvalidEnvIsError ==
    \A k \in FieldIdx :
        Done /\ HasOption(k) /\ FirstFailure(k) /\ RejectsEnv(k)
            => result = Res("ParseError", OptionOf(k).envVar, EnvTextOf(k), k)

(***************************************************************************)
(* C6.  An environment variable that is unset, empty or white space only   *)
(* never makes Load return a parse error for its field, even when the      *)
(* parser ran on the text and rejected it.                                 *)
(***************************************************************************)
C6_BlankIsNoError ==
    \A k \in FieldIdx :
        HasOption(k) /\ TrimSpace(EnvTextOf(k)) = <<>>
            => ~(result.err = "ParseError" /\ result.at = k)

C6_Witness ==
    \E k \in FieldIdx :
        /\ Done
        /\ result = Nil
        /\ HasOption(k)
        /\ KindOf(k) = "int"
        /\ EnvTextOf(k) = Space
        /\ ~EnvParse(KindOf(k), EnvTextOf(k)).ok

(***************************************************************************)
(* C7 as stated.  A tagged, settable field of an unsupported type makes    *)
(* Load return the error naming that type, whatever the environment and    *)
(* the arguments are.                                                      *)
(***************************************************************************)
UnsupportedAt(k) == config.shape = "ptrStruct" /\ HasOption(k) /\ KindOf(k) = "unsupported"

C7_AlwaysNamesType ==
    \A k \in FieldIdx :
        Done /\ UnsupportedAt(k)
            => result = Res("UnsupportedTypeError", TypeName(KindOf(k)), <<>>, k)

(***************************************************************************)
(* C7 as amended.  A tagged, settable field of an unsupported type makes   *)
(* Load never return nil, whatever the environment and the arguments are,  *)
(* and Load returns the error naming that type when the apply step of      *)
(* every field declared before it completes.                               *)
(***************************************************************************)
C7_NamesTypeUnlessEarlierFailure ==
    \A k \in FieldIdx :
        Done /\ UnsupportedAt(k)
            => /\ result # Nil
               /\ (\A j \in 1..(k - 1) : ~EndsLoad(j))
                    => result = Res("UnsupportedTypeError", TypeName(KindOf(k)), <<>>, k)

C7_Witness ==
    \E k \in FieldIdx :
        /\ Done
        /\ UnsupportedAt(k)
        /\ k > 1
        /\ \A j \in 1..(k - 1) : ~EndsLoad(j)
        /\ HasOption(1)
        /\ EnvSetFor(1)
        /\ ~EnvSetFor(k)
        /\ argSpec # <<>>
        /\ result.err = "UnsupportedTypeError"

(***************************************************************************)
(* C8.  A config that is no pointer to a struct makes Load return an       *)
(* error, without a panic, before any field is written, before any flag is *)
(* registered and without parsing the process arguments.                   *)
(***************************************************************************)
C8_ShapeErrorTouchesNothing ==
    config.shape # "ptrStruct"
        => /\ result.err \in {"running", "ConfigShapeError"}
           /\ Done => result.err = "ConfigShapeError"
           /\ \A k \in FieldIdx : mem[k] = DefaultOf(k)
           /\ fs = <<>>
           /\ parseCalls = 0

C8_Witness ==
    /\ Done
    /\ config.shape = "struct"
    /\ Len(config.fields) = 2
    /\ flags # "nil"
    /\ argSpec # <<>>
    /\ env # <<>>
    /\ result.err = "ConfigShapeError"

(***************************************************************************)
(* C9.  Load applies the tagged fields in declaration order and stops at   *)
(* the first whose apply step fails (unsupported type or environment       *)
(* parse error): it returns that error, the fields before it keep the      *)
(* value applied to them and stay registered, the fields after it are      *)
(* neither written nor registered, and the arguments are never parsed.     *)
(***************************************************************************)
RegisteredValue(k) == fs[CHOOSE j \in 1..Len(fs) : fs[j].ptr = k].defValue

ErrorOfField(k) ==
    IF KindOf(k) = "unsupported"
    THEN Res("UnsupportedTypeError", TypeName(KindOf(k)), <<>>, k)
    ELSE Res("ParseError", OptionOf(k).envVar, EnvTextOf(k), k)

C9_FailFast ==
    \A k \in FieldIdx :
        Done /\ config.shape = "ptrStruct" /\ FirstFailure(k)
            => /\ result = ErrorOfField(k)
               /\ \A j \in 1..(k - 1) :
                    HasOption(j) => Registered(j) /\ mem[j] = RegisteredValue(j)
               /\ \A j \in (k + 1)..Len(config.fields) :
                    mem[j] = DefaultOf(j) /\ ~Registered(j)
               /\ parseCalls = 0

(***************************************************************************)
(* C10.  With a nil flag set the arguments are never parsed and no field   *)
(* is changed by an argument.  With a flag set of the caller, Parse is     *)
(* called once, on os.Args without the program name, only after every      *)
(* tagged field has had its environment value applied and its flag         *)
(* registered, and Load returns the error of Parse unchanged.              *)
(***************************************************************************)
AllRegistered ==
    /\ Len(fs) = Len(opts)
    /\ \A j \in 1..Len(opts) :
         /\ fs[j].ptr = opts[j].ptr
         /\ fs[j].name = opts[j].flagName
         /\ opts[j].envVar \in DOMAIN env /\ EnvParse(opts[j].iface, env[opts[j].envVar]).ok
              => fs[j].defValue = EnvParse(opts[j].iface, env[opts[j].envVar]).val

C10_ParseAfterRegistration ==
    /\ parseCalls <= 1
    /\ flags = "nil"
         => /\ parseCalls = 0
            /\ \A j \in 1..Len(fs) : mem[fs[j].ptr] = fs[j].defValue
    /\ parseCalls = 1
         => /\ flags # "nil"
            /\ parsedArgs = Tail(OsArgs)
            /\ i > Len(opts)
            /\ AllRegistered
    /\ Done /\ flags # "nil" /\ config.shape = "ptrStruct" /\ i > Len(opts) => parseCalls = 1
    /\ parseRet.err \in ArgErrors => result = parseRet
    /\ Done /\ parseRet = Nil => result = Nil

C10_Witness ==
    /\ Done
    /\ flags = "ContinueOnError"
    /\ parseCalls = 1
    /\ Len(opts) = 2
    /\ \E j \in 1..Len(opts) : opts[j].envVar \in DOMAIN env
    /\ parseRet.err = "flag: invalid value"
    /\ result = parseRet

====
